---- MODULE Spec2Model ----
(***************************************************************************)
(* Model of the multiplayer client of OpenRCT2 (NetworkClient.cpp) and of  *)
(* the identity key store it uses (NetworkKey, in object/WaterObject.h).   *)
(* The state is the NetworkClient object's fields, the process-wide        *)
(* network mode, the key files on disk, and a few observation variables    *)
(* (what the last call returned, what was handed to map processing).       *)
(***************************************************************************)
EXTENDS Integers, Sequences, FiniteSets, TLC

(* ------------------------------ bounds -------------------------------- *)

\* Largest totalDataSize and offset a MAP message carries.
MaxSize == 4
\* Largest number of bytes in one chunk.
MaxChunk == 2
\* Largest tick a TICK message or a loaded snapshot carries.
MaxTick == 2
\* Largest random seed a TICK message carries.
MaxSeed == 2
\* Most commands received between two clears of the queue.
MaxQueue == 4
\* Most Begin calls on one client object.
MaxBegin == 2
\* Most packets queued on one connection.
MaxPackets == 2

(* --------------------------- value domains ---------------------------- *)

\* A byte: 0 is NUL, 1 is a payload byte, 2 is the character of the (one
\* character long) compressed-format marker string.
Byte == 0..2
\* The bytes of an uncompressed snapshot.
PlainByte == 0..1

\* size_t arithmetic wraps; the modulus is scaled down from 2^64 and stays
\* above every sum of an offset and a chunk size that lie inside a transfer.
SizeModulus == 4 * (MaxSize + 1)

Sizes == 0..MaxSize
\* Offsets inside a transfer, and one near the top of size_t.
Offsets == (0..MaxSize) \cup {SizeModulus - 1}
PlainChunks == UNION {[1..n -> PlainByte] : n \in 0..MaxChunk}
Ticks == 0..MaxTick
Seeds == 0..MaxSeed
\* Target ticks of the commands the server sends.
CmdTicks == {1, 2, 5}

RECURSIVE Zeros(_)
Zeros(n) == IF n <= 0 THEN <<>> ELSE <<0>> \o Zeros(n - 1)

(* ----------------------------- variables ------------------------------ *)

VARIABLES
    mode,               \* Network2's process-wide mode: "NONE" or "CLIENT"
    status,             \* _status
    conn,               \* _serverConnection (id 0 is nullptr)
    m_key,              \* _key.m_key: "null", "generated" or "private"
    privFile,           \* the private-key file of the player name
    pubFile,            \* the public-key file of the player name
    challenge,          \* _challenge
    mapBuffer,          \* _mapBuffer
    serverTick,         \* _serverTick
    serverSrand0,       \* _serverSrand0
    serverSrand0Tick,   \* _serverSrand0Tick
    gameCommandQueue,   \* _gameCommandQueue, in iteration order
    aborted,            \* the process was terminated (failed assertion, crash)
    begun,              \* number of Begin calls made on this object
    last,               \* the last public call and what it returned
    phase,              \* how far the session has come since Begin
    serverInfo,         \* _serverInfo
    inbox,              \* messages of the server still in flight
    signed,             \* what Sign and Verify were last called with and stored
    copied,             \* where the chunks of the current transfer were copied
    processed,          \* what the last ReceiveMap call handed to ProcessMap
    run,                \* chunks received in offset order since a chunk at offset 0
    rev,                \* a second half received before its first half
    received,           \* commands received since the queue was last cleared
    anchored            \* a TICK was received since the last resynchronization

sessionVars == <<mode, status, conn, m_key, privFile, pubFile, challenge, begun,
                 serverInfo>>
mapVars == <<mapBuffer, processed, run, rev, copied>>
syncVars == <<serverTick, serverSrand0, serverSrand0Tick, gameCommandQueue,
              received, anchored>>
vars == <<sessionVars, mapVars, syncVars, aborted, last, phase, inbox, signed>>

(* ------------------------- messages in flight ------------------------ *)

\* The messages whose handlers change the map buffer, the queue or the anchor.
CmdMsg(tick) ==
    [type |-> "cmd", tick |-> tick, srand0 |-> 0,
     total |-> 0, offset |-> 0, data |-> <<>>]
TickMsg(tick, srand0) ==
    [type |-> "tick", tick |-> tick, srand0 |-> srand0,
     total |-> 0, offset |-> 0, data |-> <<>>]
MapMsg(total, offset, data) ==
    [type |-> "map", tick |-> 0, srand0 |-> 0,
     total |-> total, offset |-> offset, data |-> data]

(* ------------------------ the connection object ----------------------- *)

NoConnection ==
    [id |-> 0, AuthStatus |-> "NONE", reason |-> "none",
     disconnected |-> FALSE, connecting |-> FALSE, queued |-> <<>>]

(* ------------------------- map transfer buffer ------------------------ *)

\* std::vector<uint8>::resize: new elements are value-initialized.
Resize(buf, n) ==
    IF n > Len(buf) THEN buf \o Zeros(n - Len(buf)) ELSE SubSeq(buf, 1, n)

\* The buffer after `if (totalDataSize > _mapBuffer.size()) resize`.
Grow(buf, total) ==
    IF total > Len(buf) THEN Resize(buf, total) ELSE buf

\* A plausible slip: the buffer is left as it is after processing.
KeepBuffer(buf) == buf

\* `_mapBuffer.resize(0)` after ProcessMap has returned.
DiscardBuffer(buf) == Resize(buf, 0)

\* A plausible slip: the chunk is copied to the start of the buffer.
CopyIgnoringOffset(buf, offset, data) ==
    [i \in 1..Len(buf) |-> IF i <= Len(data) THEN data[i] ELSE buf[i]]

\* Memory::Copy of the chunk to data() + offset: the bytes that fall inside
\* the buffer (the others are written past its end, see OutOfBounds).
CopyChunk(buf, offset, data) ==
    [i \in 1..Len(buf) |->
        IF i > offset /\ i <= offset + Len(data) THEN data[i - offset] ELSE buf[i]]

\* The copy writes at least one byte past the end of the buffer.
OutOfBounds(buf, offset, data) ==
    Len(data) > 0 /\ offset + Len(data) > Len(buf)

\* `offset + dataChunkSize == totalDataSize`, in size_t arithmetic.
Completes(total, offset, size) ==
    (offset + size) % SizeModulus = total

\* SV6_HEADER_ZLIB_COMPRESSED, a NUL-terminated string: here one character.
Sv6HeaderZlib == <<2>>

\* String::SizeOf(header) + 1: the marker and its terminating NUL.
HeaderSize == Len(Sv6HeaderZlib) + 1

\* The outcomes of String::Equals(mapData, header). It compares up to the
\* NUL after the marker; in a buffer that ends with the marker it reads
\* past the end, and the byte found there decides.
IsZlibReads(buf) ==
    IF Len(buf) >= HeaderSize
    THEN {SubSeq(buf, 1, Len(Sv6HeaderZlib)) = Sv6HeaderZlib /\ buf[HeaderSize] = 0}
    ELSE IF buf = Sv6HeaderZlib THEN BOOLEAN ELSE {FALSE}

\* util_zlib_inflate: a stream is well formed when it starts with a payload
\* byte; what follows is stored once and expands to two copies.
Inflate(body) ==
    IF Len(body) >= 1 /\ body[1] = 1
    THEN [ok |-> TRUE, data |-> Tail(body) \o Tail(body)]
    ELSE [ok |-> FALSE, data |-> <<>>]

\* What a ReceiveMap call handed to ProcessMap and how that ended; `quit`
\* counts the GAME_COMMAND_LOAD_OR_QUIT commands issued.
NotProcessed == [buf |-> <<>>, sv6 |-> <<>>, outcome |-> "none", quit |-> 0]

\* LoadMap: game_load_network accepts or rejects the snapshot.
LoadMapOutcomes(buf, sv6) ==
    {[buf |-> buf, sv6 |-> sv6, outcome |-> "loaded", quit |-> 0],
     [buf |-> buf, sv6 |-> sv6, outcome |-> "rejected", quit |-> 1]}

\* ProcessMap: every way a call on `buf` can end.
ProcessMapOutcomes(buf) ==
    UNION {
        IF z
        THEN IF Len(buf) < HeaderSize
             THEN \* bufferBodySize wraps around: inflate reads foreign memory
                  {[buf |-> buf, sv6 |-> <<>>, outcome |-> o, quit |-> 0] :
                        o \in {"inflate_failed", "crash"}}
             ELSE LET r == Inflate(SubSeq(buf, HeaderSize + 1, Len(buf)))
                  IN  IF r.ok
                      THEN LoadMapOutcomes(buf, r.data)
                      ELSE {[buf |-> buf, sv6 |-> <<>>,
                             outcome |-> "inflate_failed", quit |-> 0]}
        ELSE LoadMapOutcomes(buf, buf)
        : z \in IsZlibReads(buf) }

(* ---------------------------- command queue --------------------------- *)

\* GameCommand::operator<
Less(a, b) == a.tick < b.tick

\* A plausible slip: the new element goes before its equals.
InsertAtLowerBound(q, c) ==
    LET i == CHOOSE k \in 1..(Len(q) + 1) :
                /\ \A j \in 1..(k - 1) : Less(q[j], c)
                /\ (k = Len(q) + 1 \/ ~Less(q[k], c))
    IN  SubSeq(q, 1, i - 1) \o <<c>> \o SubSeq(q, i, Len(q))

\* A plausible slip: the new element goes to the front.
InsertAtFront(q, c) == <<c>> \o q

\* A plausible slip: a plain push_back.
InsertAtEnd(q, c) == Append(q, c)

\* std::multiset::insert: the element goes at the upper bound of its equals.
MultisetInsert(q, c) ==
    LET i == CHOOSE k \in 1..(Len(q) + 1) :
                /\ \A j \in 1..(k - 1) : ~Less(c, q[j])
                /\ (k = Len(q) + 1 \/ Less(c, q[k]))
    IN  SubSeq(q, 1, i - 1) \o <<c>> \o SubSeq(q, i, Len(q))

\* The order the simulation driver removes commands in: DrainUpTo(tick)
\* takes, from the beginning, the commands whose tick has been reached.
DrainUpTo(q, tick) == SelectSeq(q, LAMBDA c : c.tick <= tick)

(* ------------------------------ tick anchor --------------------------- *)

\* RecieveTick's `if (_serverSrand0Tick == 0)`: the anchor after the call.
AnchorAfterTick(curSeed, curTick, tick, srand0) ==
    IF curTick = 0
    THEN [srand0 |-> srand0, tick |-> tick]
    ELSE [srand0 |-> curSeed, tick |-> curTick]

\* A plausible slip: the queue survives the load.
AfterLoadKeepsQueue(q, currentTicks) ==
    [queue |-> q, serverTick |-> currentTicks, srand0Tick |-> 0]

\* LoadMap's success branch: the queue, the server tick (gCurrentTicks, as
\* the loaded snapshot set it) and the anchor tick after it.
AfterLoad(q, currentTicks) ==
    [queue |-> <<>>, serverTick |-> currentTicks, srand0Tick |-> 0]

(* --------------------- observers of the chunk stream ------------------ *)

NoRun == [on |-> FALSE, total |-> 0, data |-> <<>>, n |-> 0, fresh |-> FALSE]

\* The chunks received in offset order, without gaps, since a chunk at
\* offset 0: their total size, their concatenation and their number. `fresh` says that the
\* buffer was no larger than the total when the chunk at offset 0 arrived.
TrackRun(total, offset, data) ==
    IF data = <<>> \/ offset + Len(data) > total
    THEN NoRun
    ELSE IF offset = 0
    THEN [on |-> TRUE, total |-> total, data |-> data, n |-> 1,
          fresh |-> Len(mapBuffer) <= total]
    ELSE IF run.on /\ total = run.total /\ offset = Len(run.data)
    THEN [run EXCEPT !.data = run.data \o data, !.n = run.n + 1]
    ELSE NoRun

\* No chunk has been copied since the last completion: `since` is the set
\* of buffer offsets written since then, `done` says that the last chunk
\* completed; total, offset, size are the last chunk's and `room` the size of
\* the buffer it was copied into. The copies are recorded when `on` is set.
NotCopied == [on |-> FALSE, total |-> 0, offset |-> 0, size |-> 0, room |-> 0,
              since |-> {}, done |-> FALSE]

\* The same after the chunk (total, offset, data) was copied into a buffer
\* of `room` bytes, and completed or not.
TrackCopy(total, offset, data, room, done) ==
    IF ~copied.on THEN copied ELSE
    [on |-> TRUE, total |-> total, offset |-> offset, size |-> Len(data), room |-> room,
     since |-> (IF copied.done THEN {} ELSE copied.since)
                  \cup {i \in 0..(room - 1) : offset <= i /\ i < offset + Len(data)},
     done |-> done]

NoRev == [on |-> FALSE, done |-> FALSE, total |-> 0,
          first |-> <<>>, second |-> <<>>, early |-> NotProcessed]

\* A transfer of two halves fed in reverse order into an empty buffer: the
\* chunk (total/2, bytes total/2..total), then the chunk (0, bytes
\* 0..total/2). `early` is what the call with the second half handed over.
TrackRev(total, offset, data, handed) ==
    IF /\ total >= 2 /\ offset = total \div 2 /\ Len(data) = total - offset
       /\ mapBuffer = <<>>
    THEN [on |-> TRUE, done |-> FALSE, total |-> total,
          first |-> <<>>, second |-> data, early |-> handed]
    ELSE IF /\ rev.on /\ ~rev.done /\ total = rev.total
            /\ offset = 0 /\ Len(data) = total \div 2
    THEN [rev EXCEPT !.done = TRUE, !.first = data]
    ELSE NoRev

(* -------------------------------- Init -------------------------------- *)

\* What can lie at the private-key path: nothing, a key that loads, a key
\* that decodes and fails RSA_check_key, text that does not decode.
PrivFileKinds == {"absent", "valid", "invalid", "garbage"}

\* NetworkServerInfo _serverInfo = { nullptr }.
NoProvider == [Name |-> "null", Email |-> "null", Website |-> "null"]
NoServerInfo == [Name |-> "null", Description |-> "null", Provider |-> NoProvider]

\* Nothing has been signed or verified yet: `md` and `signature` are what
\* Sign was last given and stored, `by` the key it had, `vmd` and `vsig` what
\* Verify was last given.
NotSigned == [md |-> <<>>, signature |-> <<>>, by |-> "null",
              vmd |-> <<>>, vsig |-> <<>>]

\* The fields of a client object after construction.
Constructed ==
    /\ mode = "NONE"
    /\ status = "NONE"
    /\ conn = NoConnection
    /\ m_key = "null"
    /\ privFile \in PrivFileKinds
    /\ pubFile = "absent"
    /\ challenge = <<>>
    /\ mapBuffer = <<>>
    /\ serverTick = 0
    /\ serverSrand0 = 0
    /\ serverSrand0Tick = 0
    /\ gameCommandQueue = <<>>
    /\ aborted = FALSE
    /\ begun = 0
    /\ last = [op |-> "none", ret |-> "none", pre |-> "NONE", path |-> "none",
               arg |-> 0, rep |-> 1]
    /\ phase = "idle"
    /\ serverInfo = NoServerInfo
    /\ processed = NotProcessed
    /\ run = NoRun
    /\ rev = NoRev
    /\ received = <<>>
    /\ anchored = FALSE
    /\ signed = NotSigned
    /\ copied \in {NotCopied, [NotCopied EXCEPT !.on = TRUE]}

\* No message is in flight unless a specification puts some there.
Init == Constructed /\ inbox = {} /\ ~copied.on

\* The call `op`, made with `arg` when `pre` held, returned `ret` along the
\* path `path` of its body; `rep` is 2 when a Close or an Unload directly
\* follows a call of the same operation, and alternates between 1 and 2
\* over the Update calls of successive frames.
ReturnedFrom(op, ret, path, pre, arg) ==
    [op |-> op, ret |-> ret, pre |-> pre, path |-> path, arg |-> arg,
     rep |-> IF op \in {"Close", "Unload"} /\ last.op = op THEN 2
             ELSE IF op = "Update" /\ last.op = op THEN 3 - last.rep
             ELSE 1]

\* The same for the calls of the client; for Begin, `pre` is the mode it was
\* called in.
ReturnedVia(op, ret, path) ==
    ReturnedFrom(op, ret, path, IF op = "Begin" THEN mode ELSE "NONE", 0)

Returned(op, ret) == ReturnedVia(op, ret, "none")

(* ----------------------------- ReceiveMap ----------------------------- *)

\* A plausible slip: Close() flips the mode flag.
ModeToggled(m) == IF m = "NONE" THEN "CLIENT" ELSE "NONE"

\* A plausible slip: Close() leaves the mode flag alone.
ModeKept(m) == m

\* Close(): Network2::SetMode(NETWORK_MODE_NONE), and nothing else.
ModeAfterClose(m) == "NONE"

\* A plausible slip: the success branch of LoadMap runs whatever the loader said.
LoaderRan(p) == p.outcome \in {"loaded", "rejected"}

\* LoadMap's `if (game_load_network(rw))`.
Loaded(p) == p.outcome = "loaded"

\* The session's progress after a ReceiveMap call that ended as `p`.
PhaseAfterMap(p) ==
    IF p.outcome = "inflate_failed" THEN "idle"
    ELSE IF p.outcome = "loaded" /\ phase \in {"answered", "loaded", "ticked"}
    THEN "loaded"
    ELSE phase

\* What ProcessMap's outcome `p` does to the rest of the client.
ProcessMapEffect(p, currentTicks) ==
    /\ aborted' = (p.outcome = "crash")
    /\ \* a failed decompression calls Close()
       mode' = IF p.outcome = "inflate_failed" THEN ModeAfterClose(mode) ELSE mode
    /\ phase' = PhaseAfterMap(p)
    /\ IF Loaded(p)
       THEN LET a == AfterLoad(gameCommandQueue, currentTicks)
            IN  /\ gameCommandQueue' = a.queue
                /\ serverTick' = a.serverTick
                /\ serverSrand0Tick' = a.srand0Tick
                /\ received' = IF a.queue = <<>> THEN <<>> ELSE received
                /\ anchored' = FALSE
       ELSE UNCHANGED <<gameCommandQueue, serverTick, serverSrand0Tick,
                        received, anchored>>

\* ReceiveMap(totalDataSize, offset, dataChunk); `currentTicks` is the value
\* of gCurrentTicks a successful load of the snapshot leaves.
ReceiveMap(total, offset, data, currentTicks) ==
    /\ ~aborted
    /\ inbox' = inbox \ {MapMsg(total, offset, data)}
    /\ UNCHANGED signed
    /\ LET grown == Grow(mapBuffer, total)
           written == CopyChunk(grown, offset, data)
       IN
       \/ \* the copy past the end of the buffer ends the process
          /\ OutOfBounds(grown, offset, data)
          /\ aborted' = TRUE
          /\ mapBuffer' = grown
          /\ processed' = NotProcessed
          /\ run' = NoRun
          /\ rev' = NoRev
          /\ copied' = TrackCopy(total, offset, data, Len(grown), FALSE)
          /\ last' = Returned("ReceiveMap", "crash")
          /\ UNCHANGED <<sessionVars, syncVars, phase>>
       \/ \* the copy stays inside the buffer, or overwrites foreign memory
          \* and the call goes on
          /\ IF Completes(total, offset, Len(data))
             THEN \E p \in ProcessMapOutcomes(written) :
                    /\ processed' = p
                    /\ mapBuffer' = IF p.outcome = "crash" THEN written
                                    ELSE DiscardBuffer(written)
                    /\ rev' = TrackRev(total, offset, data, p)
                    /\ ProcessMapEffect(p, currentTicks)
             ELSE /\ processed' = NotProcessed
                  /\ mapBuffer' = written
                  /\ rev' = TrackRev(total, offset, data, NotProcessed)
                  /\ UNCHANGED <<mode, aborted, gameCommandQueue, serverTick,
                                 serverSrand0Tick, received, anchored, phase>>
          /\ run' = TrackRun(total, offset, data)
          /\ copied' = TrackCopy(total, offset, data, Len(grown),
                                 Completes(total, offset, Len(data)))
          /\ last' = ReturnedVia("ReceiveMap",
                                 IF aborted' THEN "crash" ELSE "void",
                                 IF Completes(total, offset, Len(data))
                                 THEN "completed" ELSE "partial")
          /\ UNCHANGED <<status, conn, m_key, privFile, pubFile, challenge,
                         begun, serverInfo, serverSrand0>>

(* ------------------- RecieveGameCommand, RecieveTick ------------------ *)

RecieveGameCommand(tick) ==
    /\ ~aborted
    /\ inbox' = inbox \ {CmdMsg(tick)}
    /\ UNCHANGED signed
    /\ Len(received) < MaxQueue
    /\ LET command == [tick |-> tick, id |-> Len(received) + 1]
       IN  /\ gameCommandQueue' = MultisetInsert(gameCommandQueue, command)
           /\ received' = Append(received, command)
    /\ last' = Returned("RecieveGameCommand", "void")
    /\ UNCHANGED <<sessionVars, mapVars, serverTick, serverSrand0,
                   serverSrand0Tick, anchored, aborted, phase>>

RecieveTick(tick, srand0) ==
    /\ ~aborted
    /\ inbox' = inbox \ {TickMsg(tick, srand0)}
    /\ UNCHANGED signed
    /\ serverTick' = tick
    /\ LET a == AnchorAfterTick(serverSrand0, serverSrand0Tick, tick, srand0)
       IN  /\ serverSrand0' = a.srand0
           /\ serverSrand0Tick' = a.tick
    /\ anchored' = TRUE
    /\ phase' = IF phase = "loaded" THEN "ticked" ELSE phase
    /\ last' = Returned("RecieveTick", "void")
    /\ UNCHANGED <<sessionVars, mapVars, gameCommandQueue, received, aborted>>

(* --------------------------- identity key store ----------------------- *)

\* A plausible slip: Unload() leaves the key where it is.
UnloadKeeps(key) == key

\* NetworkKey::Unload: the key is freed and m_key cleared.
Unload(key) == "null"

\* Unload's `if (m_key != nullptr)`: whether EVP_PKEY_free is called.
UnloadFrees(key) == key # "null"

\* NetworkKey::Generate: EVP_PKEY_keygen stores a new keypair, or fails and
\* leaves m_key as it was.
Generate(key, keygenOk) ==
    IF keygenOk THEN [ok |-> TRUE, key |-> "generated"]
    ELSE [ok |-> FALSE, key |-> key]

\* NetworkKey::LoadPrivate on an opened file of the given kind. Text that
\* does not decode makes PEM_read_bio_RSAPrivateKey return NULL, which
\* RSA_check_key is then called on: the call dies or reports an invalid key.
LoadPrivateOutcomes(key, kind) ==
    CASE kind = "oversize" -> {[ok |-> FALSE, key |-> key, crash |-> FALSE]}
      [] kind = "invalid"  -> {[ok |-> FALSE, key |-> key, crash |-> FALSE]}
      [] kind = "garbage"  -> {[ok |-> FALSE, key |-> key, crash |-> c] : c \in BOOLEAN}
      [] OTHER             -> {[ok |-> TRUE, key |-> "private", crash |-> FALSE]}

\* The sanity ceiling on the size of a key file, in bytes.
KeyFileSizeLimit == 4194304

\* A plausible slip: a file of exactly the ceiling is refused as well.
SizeRejectedAtLimit(size) == size = -1 \/ size >= KeyFileSizeLimit

\* LoadPrivate's and LoadPublic's check of file->size(file), made before
\* anything is read.
SizeRejected(size) == size = -1 \/ size > KeyFileSizeLimit

\* NetworkKey::LoadPublic on a file of the given kind, past the size check:
\* whatever PEM_read_bio_RSAPublicKey returned is put into a new EVP_PKEY,
\* and the call returns true.
LoadPublicOutcomes(key, kind) ==
    {[ok |-> TRUE, key |-> IF kind = "valid" THEN "public" ELSE "empty",
      crash |-> FALSE]}

\* NetworkKey::SavePrivate, SavePublic: what the opened (and truncated) file
\* holds afterwards. With no key loaded nothing is written; `encoded` says
\* whether the key was checked, encoded and written out in full.
SavePrivate(key, encoded) ==
    IF key # "null" /\ encoded THEN "valid" ELSE "garbage"
SavePublic(key, encoded) ==
    IF key # "null" /\ encoded THEN "written" ELSE "empty"

\* NetworkKey::PublicKeyString. With no key loaded it returns nullptr as a
\* std::string, which is undefined: the construction throws or crashes, or
\* yields an empty string.
PublicKeyStringOutcomes(key) ==
    IF key \in {"null", "empty"}
    THEN {[crash |-> c, pem |-> ""] : c \in BOOLEAN}
    ELSE {[crash |-> FALSE, pem |-> "PEM"]}

\* m_key holds an RSA private half; a public half.
HasPrivateHalf(key) == key \in {"generated", "private"}
HasPublicHalf(key) == key \in {"generated", "private", "public"}

\* The signature EVP_DigestSign computes over a message: the scheme is
\* deterministic, so each message has one signature under a key (here the
\* bits of the message mirrored, and a trailer).
Signature(message) ==
    [i \in 1..Len(message) |-> message[Len(message) + 1 - i]] \o <<1>>

\* NetworkKey::Sign: `*signature` is set to nullptr first; then the
\* signature is stored, or one of the digest-sign calls fails. Without a key
\* EVP_DigestSignInit fails; with a key that has no private half the signing
\* fails or reads through a null pointer.
SignOutcomes(key, message) ==
    IF key = "null"
    THEN {[ok |-> FALSE, signature |-> <<>>, crash |-> FALSE]}
    ELSE IF HasPrivateHalf(key)
    THEN {[ok |-> TRUE, signature |-> Signature(message), crash |-> FALSE],
          [ok |-> FALSE, signature |-> <<>>, crash |-> FALSE]}
    ELSE {[ok |-> FALSE, signature |-> <<>>, crash |-> c] : c \in BOOLEAN}

\* A plausible slip: the signature is checked for its length only.
VerifyLengthOnly(key, md, sig) ==
    {[ok |-> HasPublicHalf(key) /\ Len(sig) = Len(md) + 1,
      path |-> "checked", crash |-> FALSE]}

\* NetworkKey::Verify: true when EVP_DigestVerifyFinal accepts `sig` as the
\* signature of `md`; false when it does not or when a digest-verify call
\* before it fails.
VerifyOutcomes(key, md, sig) ==
    IF key = "null"
    THEN {[ok |-> FALSE, path |-> "init_failed", crash |-> FALSE]}
    ELSE IF HasPublicHalf(key)
    THEN {[ok |-> sig = Signature(md), path |-> "checked", crash |-> FALSE],
          [ok |-> FALSE, path |-> "init_failed", crash |-> FALSE]}
    ELSE {[ok |-> FALSE, path |-> "init_failed", crash |-> c] : c \in BOOLEAN}

\* NetworkKey::SavePrivate, SavePublic as calls of their own: the result,
\* and whether file->write was reached. A key object without RSA key
\* makes EVP_PKEY_get1_RSA return NULL or read through it; a public key
\* fails SavePrivate's RSA_check_key.
SaveOutcomes(key, private, encoded) ==
    IF key = "null"
    THEN {[ok |-> FALSE, wrote |-> FALSE, crash |-> FALSE]}
    ELSE IF key = "empty"
    THEN {[ok |-> FALSE, wrote |-> FALSE, crash |-> c] : c \in BOOLEAN}
    ELSE IF private /\ ~HasPrivateHalf(key)
    THEN {[ok |-> FALSE, wrote |-> FALSE, crash |-> FALSE]}
    ELSE {[ok |-> encoded, wrote |-> encoded, crash |-> FALSE]}

(* ----------------------------- SetupUserKey --------------------------- *)

KeySetup(ret, key, priv, pub, crash) ==
    [ret |-> ret, key |-> key, priv |-> priv, pub |-> pub, crash |-> crash]

\* SetupUserKey when no private-key file exists: generate, create the keys
\* directory, write the private file, then the public file. What Generate,
\* SavePrivate and SavePublic return is not looked at.
SetupNewKeyOutcomes(key, priv, pub) ==
    UNION {
      LET generated == Generate(key, keygenOk).key
          privWritten == SavePrivate(generated, privEncoded)
      IN  IF ~dirOk THEN {KeySetup(FALSE, generated, priv, pub, FALSE)}
          ELSE IF ~privOpenOk THEN {KeySetup(FALSE, generated, priv, pub, FALSE)}
          ELSE UNION {
                 IF hash.crash
                 THEN {KeySetup(FALSE, generated, privWritten, pub, TRUE)}
                 ELSE IF ~pubOpenOk
                 THEN {KeySetup(FALSE, generated, privWritten, pub, FALSE)}
                 ELSE {KeySetup(TRUE, generated, privWritten,
                                SavePublic(generated, pubEncoded), FALSE)}
                 : hash \in PublicKeyStringOutcomes(generated) }
      : keygenOk \in BOOLEAN, dirOk \in BOOLEAN,
        privOpenOk \in BOOLEAN, pubOpenOk \in BOOLEAN,
        privEncoded \in BOOLEAN, pubEncoded \in BOOLEAN }

\* SetupUserKey when the private-key file exists: load it to validate it,
\* then unload.
SetupExistingKeyOutcomes(key, priv, pub) ==
    UNION {
      IF ~openOk THEN {KeySetup(FALSE, key, priv, pub, FALSE)}
      ELSE { IF l.crash THEN KeySetup(FALSE, l.key, priv, pub, TRUE)
             ELSE KeySetup(l.ok, Unload(l.key), priv, pub, FALSE)
             : l \in LoadPrivateOutcomes(key, priv) }
      : openOk \in BOOLEAN }

\* A plausible slip: a key is generated whether or not a key file exists.
SetupAlwaysGenerates(key, priv, pub) == SetupNewKeyOutcomes(key, priv, pub)

SetupUserKeyOutcomes(key, priv, pub) ==
    IF priv = "absent"
    THEN SetupNewKeyOutcomes(key, priv, pub)
    ELSE SetupExistingKeyOutcomes(key, priv, pub)

(* ----------------------------- Begin, Close --------------------------- *)

NewConnection(id) ==
    [id |-> id, AuthStatus |-> "NONE", reason |-> "none",
     disconnected |-> FALSE, connecting |-> TRUE, queued |-> <<>>]

\* Begin(host, port). The second guard fails when a connection object
\* already exists: a build with assertions ends the process there, a build
\* without them goes on and replaces the object.
Begin ==
    /\ ~aborted
    /\ begun < MaxBegin
    /\ begun' = begun + 1
    /\ LET closed == ModeAfterClose(mode)
       IN
       \/ /\ closed # "NONE" \/ conn.id # 0
          /\ aborted' = TRUE
          /\ mode' = IF closed = "NONE" THEN "CLIENT" ELSE closed
          /\ last' = Returned("Begin", "abort")
          /\ phase' = "idle"
          /\ UNCHANGED <<status, conn, m_key, privFile, pubFile>>
       \/ \E k \in SetupUserKeyOutcomes(m_key, privFile, pubFile) :
            /\ mode' = "CLIENT"
            /\ conn' = NewConnection(begun + 1)
            /\ status' = "CONNECTING"
            /\ m_key' = k.key
            /\ privFile' = k.priv
            /\ pubFile' = k.pub
            /\ aborted' = k.crash
            /\ phase' = IF k.ret /\ ~k.crash THEN "begun" ELSE "idle"
            /\ last' = ReturnedVia("Begin",
                                   IF k.crash THEN "crash"
                                   ELSE IF k.ret THEN "true" ELSE "false",
                                   IF privFile = "absent" THEN "generate"
                                   ELSE "load")
    /\ UNCHANGED <<challenge, serverInfo, mapVars, syncVars, inbox, signed>>

Close ==
    /\ ~aborted
    /\ mode' = ModeAfterClose(mode)
    /\ last' = Returned("Close", "void")
    /\ phase' = "idle"
    /\ UNCHANGED <<status, conn, m_key, privFile, pubFile, challenge, begun,
                   serverInfo, mapVars, syncVars, aborted, inbox, signed>>

(* --------------------- HandleChallenge, SendPassword ------------------ *)

\* LoadPrivateKey(): the file is opened without a check of the result, so a
\* failed open makes LoadPrivate read through a null pointer.
LoadPrivateKeyOutcomes(key, priv) ==
    IF priv = "absent"
    THEN {[ok |-> FALSE, key |-> key, crash |-> FALSE]}
    ELSE LoadPrivateOutcomes(key, priv) \cup {[ok |-> FALSE, key |-> key, crash |-> TRUE]}

AuthPacket(password, pubkey, signature) ==
    [command |-> "AUTH", stream |-> "STREAM_ID", name |-> "player_name",
     password |-> password, pubkey |-> pubkey,
     sigsize |-> Len(signature), signature |-> signature]

\* A plausible slip: the packet is queued a second time.
SendAuthenticationTwice(c, password, pubkey, signature) ==
    [c EXCEPT !.AuthStatus = "REQUESTED",
              !.queued = @ \o <<AuthPacket(password, pubkey, signature),
                                AuthPacket(password, pubkey, signature)>>]

\* SendAuthentication on the connection `c`.
SendAuthentication(c, password, pubkey, signature) ==
    [c EXCEPT !.AuthStatus = "REQUESTED",
              !.queued = Append(c.queued, AuthPacket(password, pubkey, signature))]

\* A plausible slip: the reason is recorded and the socket left connected.
ReasonOnly(c) == [c EXCEPT !.reason = "VERIFICATION_FAILURE"]

\* SetLastDisconnectReason(STR_MULTIPLAYER_VERIFICATION_FAILURE) and
\* Socket->Disconnect() on the connection `c`.
VerificationFailure(c) ==
    [c EXCEPT !.reason = "VERIFICATION_FAILURE", !.disconnected = TRUE]

Challenges == {<<0, 1>>}

\* The call ended the process: the fields written before that keep their values.
Crashed(op) ==
    /\ aborted' = TRUE
    /\ last' = Returned(op, "crash")
    /\ UNCHANGED phase

\* The call read or wrote through _serverConnection, which was nullptr.
NoConnectionThere(op) ==
    /\ aborted' = TRUE
    /\ last' = ReturnedVia(op, "crash", "null_connection")
    /\ UNCHANGED <<conn, phase>>

\* HandleChallenge's two failure paths on the connection, which must exist.
ChallengeFailed(path) ==
    IF conn.id = 0
    THEN NoConnectionThere("HandleChallenge")
    ELSE /\ conn' = VerificationFailure(conn)
         /\ aborted' = FALSE
         /\ phase' = "idle"
         /\ last' = ReturnedVia("HandleChallenge", "void", path)

HandleChallenge(bytes) ==
    /\ ~aborted
    /\ Len(conn.queued) < MaxPackets
    /\ challenge' = bytes
    /\ \E pubkey \in PublicKeyStringOutcomes(m_key),
          l \in LoadPrivateKeyOutcomes(m_key, privFile) :
         IF pubkey.crash
         THEN Crashed("HandleChallenge") /\ UNCHANGED <<m_key, conn>>
         ELSE IF l.crash
         THEN Crashed("HandleChallenge") /\ UNCHANGED <<m_key, conn>>
         ELSE IF ~l.ok
         THEN /\ m_key' = l.key
              /\ ChallengeFailed("load_failed")
         ELSE \E s \in SignOutcomes(l.key, bytes) :
                IF ~s.ok
                THEN /\ m_key' = l.key
                     /\ ChallengeFailed("sign_failed")
                ELSE /\ m_key' = Unload(l.key)
                     /\ IF conn.id = 0
                        THEN NoConnectionThere("HandleChallenge")
                        ELSE /\ conn' = SendAuthentication(conn, "", pubkey.pem,
                                                           s.signature)
                             /\ aborted' = FALSE
                             /\ phase' = IF phase = "begun" THEN "answered"
                                         ELSE phase
                             /\ last' = ReturnedVia("HandleChallenge", "void",
                                                    "sent")
    /\ UNCHANGED <<mode, status, privFile, pubFile, begun, serverInfo,
                   mapVars, syncVars, inbox, signed>>

Passwords == {"secret"}

\* SendPassword returns silently when the key does not load, and does not
\* look at what Sign returned: after a failed Sign the signature pointer is
\* null and the size may be unset, so the call dies in SendAuthentication
\* or queues a packet without signature bytes.
SendPassword(password) ==
    /\ ~aborted
    /\ Len(conn.queued) < MaxPackets
    /\ \E pubkey \in PublicKeyStringOutcomes(m_key),
          l \in LoadPrivateKeyOutcomes(m_key, privFile) :
         IF pubkey.crash
         THEN Crashed("SendPassword") /\ UNCHANGED <<m_key, conn>>
         ELSE IF l.crash
         THEN Crashed("SendPassword") /\ UNCHANGED <<m_key, conn>>
         ELSE IF ~l.ok
         THEN /\ m_key' = l.key
              /\ aborted' = FALSE
              /\ last' = ReturnedVia("SendPassword", "void", "load_failed")
              /\ UNCHANGED <<conn, phase>>
         ELSE \E s \in SignOutcomes(l.key, challenge) :
              /\ m_key' = Unload(l.key)
              /\ \/ /\ conn.id = 0
                    /\ NoConnectionThere("SendPassword")
                 \/ /\ ~s.ok
                    /\ Crashed("SendPassword")
                    /\ UNCHANGED conn
                 \/ /\ conn.id # 0
                    /\ conn' = SendAuthentication(conn, password, pubkey.pem,
                                                  s.signature)
                    /\ aborted' = FALSE
                    /\ last' = ReturnedVia("SendPassword", "void",
                                           IF s.ok THEN "sent" ELSE "sign_failed")
                    /\ UNCHANGED phase
    /\ UNCHANGED <<mode, status, privFile, pubFile, challenge, begun,
                   serverInfo, mapVars, syncVars, inbox, signed>>

(* -------------- GetAuthStatus, RequestGameInfo, SendPing -------------- *)

\* GetAuthStatus(): reads _serverConnection->AuthStatus.
GetAuthStatus ==
    /\ ~aborted
    /\ IF conn.id = 0
       THEN NoConnectionThere("GetAuthStatus")
       ELSE /\ last' = Returned("GetAuthStatus", conn.AuthStatus)
            /\ UNCHANGED <<conn, aborted, phase>>
    /\ UNCHANGED <<mode, status, m_key, privFile, pubFile, challenge, begun,
                   serverInfo, mapVars, syncVars, inbox, signed>>

\* A packet that holds a command code only.
CommandPacket(command) ==
    [command |-> command, stream |-> "", name |-> "", password |-> "",
     pubkey |-> "", sigsize |-> 0, signature |-> <<>>]

\* RequestGameInfo(), SendPing(): a packet with the command is queued on
\* the connection.
SendCommand(op, command) ==
    /\ ~aborted
    /\ Len(conn.queued) < MaxPackets
    /\ IF conn.id = 0
       THEN NoConnectionThere(op)
       ELSE /\ conn' = [conn EXCEPT !.queued = Append(@, CommandPacket(command))]
            /\ last' = Returned(op, "void")
            /\ UNCHANGED <<aborted, phase>>
    /\ UNCHANGED <<mode, status, m_key, privFile, pubFile, challenge, begun,
                   serverInfo, mapVars, syncVars, inbox, signed>>

RequestGameInfo == SendCommand("RequestGameInfo", "GAMEINFO")
SendPing == SendCommand("SendPing", "PING")

(* ------------------- the key store's own operations ------------------ *)

\* Sizes a key file can declare: unknown, empty, small, and around the ceiling.
KeyFileSizes ==
    {-1, 0, 1, KeyFileSizeLimit - 1, KeyFileSizeLimit, KeyFileSizeLimit + 1}

\* What a key file can hold; an empty file holds nothing that decodes.
KeyFileKinds == {"valid", "invalid", "garbage"}
KindOfSize(size, kind) == IF size = 0 THEN "garbage" ELSE kind

\* The record of a load that went through the outcome `l`.
KeyLoaded(op, size, l, path) ==
    /\ m_key' = l.key
    /\ aborted' = l.crash
    /\ last' = ReturnedFrom(op,
                            IF l.crash THEN "crash"
                            ELSE IF l.ok THEN "true" ELSE "false",
                            path, m_key, size)
    /\ UNCHANGED <<mode, status, conn, privFile, pubFile, challenge, begun,
                   serverInfo, mapVars, syncVars, phase, inbox, signed>>

\* _key.LoadPrivate(file) on a file that declares `size` and holds `kind`.
KeyLoadPrivate(size, kind) ==
    /\ ~aborted
    /\ IF SizeRejected(size)
       THEN KeyLoaded("LoadPrivate", size,
                      [ok |-> FALSE, key |-> m_key, crash |-> FALSE],
                      "size_rejected")
       ELSE \E l \in LoadPrivateOutcomes(m_key, KindOfSize(size, kind)) :
                KeyLoaded("LoadPrivate", size, l, "parsed")

\* _key.LoadPublic(file) on a file that declares `size` and holds `kind`.
KeyLoadPublic(size, kind) ==
    /\ ~aborted
    /\ IF SizeRejected(size)
       THEN KeyLoaded("LoadPublic", size,
                      [ok |-> FALSE, key |-> m_key, crash |-> FALSE],
                      "size_rejected")
       ELSE \E l \in LoadPublicOutcomes(m_key, KindOfSize(size, kind)) :
                KeyLoaded("LoadPublic", size, l, "parsed")

\* _key.Generate()
KeyGenerate ==
    /\ ~aborted
    /\ \E keygenOk \in BOOLEAN :
          LET g == Generate(m_key, keygenOk)
          IN  KeyLoaded("Generate", 0,
                        [ok |-> g.ok, key |-> g.key, crash |-> FALSE], "none")

\* _key.Unload()
KeyUnload ==
    /\ ~aborted
    /\ KeyLoaded("Unload", 0,
                 [ok |-> TRUE, key |-> Unload(m_key), crash |-> FALSE],
                 IF UnloadFrees(m_key) THEN "freed" ELSE "noop")

\* Non-empty messages, bit by bit.
SignedMessages == UNION {[1..n -> PlainByte] : n \in 1..MaxChunk}

\* `bits` with one bit flipped.
Flips(bits) == {[bits EXCEPT ![i] = 1 - @] : i \in 1..Len(bits)}

\* _key.Sign(md, len, &signature, &out_size)
KeySign(md) ==
    /\ ~aborted
    /\ \E o \in SignOutcomes(m_key, md) :
         /\ signed' = [md |-> md, signature |-> o.signature, by |-> m_key,
                       vmd |-> <<>>, vsig |-> <<>>]
         /\ aborted' = o.crash
         /\ last' = ReturnedFrom("Sign",
                                 IF o.crash THEN "crash"
                                 ELSE IF o.ok THEN "true" ELSE "false",
                                 "none", m_key, Len(md))
    /\ UNCHANGED <<sessionVars, mapVars, syncVars, phase, inbox>>

\* _key.Verify(md, len, sig, siglen)
KeyVerify(md, sig) ==
    /\ ~aborted
    /\ \E o \in VerifyOutcomes(m_key, md, sig) :
         /\ signed' = [signed EXCEPT !.vmd = md, !.vsig = sig]
         /\ aborted' = o.crash
         /\ last' = ReturnedFrom("Verify",
                                 IF o.crash THEN "crash"
                                 ELSE IF o.ok THEN "true" ELSE "false",
                                 o.path, m_key, Len(md))
    /\ UNCHANGED <<sessionVars, mapVars, syncVars, phase, inbox>>

\* _key.SavePrivate(file), _key.SavePublic(file) on a file opened for
\* writing that holds `privFile`, `pubFile`.
KeySave(private, encoded) ==
    /\ ~aborted
    /\ \E o \in SaveOutcomes(m_key, private, encoded) :
         /\ privFile' = IF private /\ o.wrote THEN SavePrivate(m_key, encoded)
                        ELSE privFile
         /\ pubFile' = IF ~private /\ o.wrote THEN SavePublic(m_key, encoded)
                       ELSE pubFile
         /\ aborted' = o.crash
         /\ last' = ReturnedFrom(IF private THEN "SavePrivate" ELSE "SavePublic",
                                 IF o.crash THEN "crash"
                                 ELSE IF o.ok THEN "true" ELSE "false",
                                 "none", m_key, 0)
    /\ UNCHANGED <<mode, status, conn, m_key, challenge, begun, serverInfo,
                   mapVars, syncVars, phase, inbox, signed>>

\* _key.PublicKeyString()
KeyPublicKeyString ==
    /\ ~aborted
    /\ \E o \in PublicKeyStringOutcomes(m_key) :
         /\ aborted' = o.crash
         /\ last' = ReturnedFrom("PublicKeyString",
                                 IF o.crash THEN "crash"
                                 ELSE IF o.pem = "" THEN "empty" ELSE o.pem,
                                 "none", m_key, 0)
    /\ UNCHANGED <<sessionVars, mapVars, syncVars, phase, inbox, signed>>

(* ----------------------- RecieveServerInfo, Update -------------------- *)

\* What json_loads makes of a payload: text that does not parse, an object
\* with every field, an object without description and provider.
ServerInfoJsons ==
    { [parsed |-> FALSE, name |-> "null", description |-> "null",
       hasProvider |-> FALSE, provider |-> NoProvider],
      [parsed |-> TRUE, name |-> "Park A", description |-> "first",
       hasProvider |-> TRUE,
       provider |-> [Name |-> "host A", Email |-> "a@host", Website |-> "null"]],
      [parsed |-> TRUE, name |-> "Park B", description |-> "null",
       hasProvider |-> FALSE, provider |-> NoProvider] }

\* A plausible slip: a payload without provider clears the provider fields.
StoreClearsProvider(info, json) ==
    [Name |-> json.name, Description |-> json.description,
     Provider |-> json.provider]

\* The assignments to _serverInfo for a payload that parsed: name and
\* description as json_string_value found them (null when missing), the
\* three provider fields when there is a provider object.
StoreServerInfo(info, json) ==
    [Name |-> json.name, Description |-> json.description,
     Provider |-> IF json.hasProvider THEN json.provider ELSE info.Provider]

\* RecieveServerInfo(json): a payload that does not parse is reported on the
\* console and nothing else is done.
RecieveServerInfo(json) ==
    /\ ~aborted
    /\ serverInfo' = IF json.parsed THEN StoreServerInfo(serverInfo, json)
                     ELSE serverInfo
    /\ last' = ReturnedVia("RecieveServerInfo", "void",
                           IF json.parsed THEN "parsed" ELSE "malformed")
    /\ UNCHANGED <<mode, status, conn, m_key, privFile, pubFile, challenge,
                   begun, mapVars, syncVars, aborted, phase, inbox, signed>>

\* Update(): an empty body.
Update ==
    /\ ~aborted
    /\ last' = Returned("Update", "void")
    /\ UNCHANGED <<sessionVars, mapVars, syncVars, aborted, phase, inbox, signed>>

(* --------------------------- specifications --------------------------- *)

\* What a session feeds the map handler: a first chunk of a longer transfer,
\* a plain snapshot, a compressed one that does not inflate, and one that does.
SessionChunks ==
    { [total |-> 2, data |-> <<1>>],
      [total |-> 1, data |-> <<1>>],
      [total |-> 3, data |-> <<2, 0, 0>>],
      [total |-> 4, data |-> <<2, 0, 1, 1>>] }

\* The map transfer reassembler alone, fed every plain chunk and the
\* session's snapshots.
NextMap ==
    \/ \E total \in Sizes, offset \in Offsets, data \in PlainChunks :
            ReceiveMap(total, offset, data, 0)
    \/ \E c \in SessionChunks : ReceiveMap(c.total, 0, c.data, 0)

\* The client object as constructed, with no key file on disk yet.
InitFresh == Init /\ privFile = "absent"

SpecMap == InitFresh /\ [][NextMap]_vars

\* A transfer of one chunk: the resynchronization the queue and the anchor see.
ResyncChunk == <<1>>

\* The command queue and the tick anchor, with a map load between them.
NextSync ==
    \/ \E tick \in CmdTicks : RecieveGameCommand(tick)
    \/ \E tick \in Ticks, srand0 \in Seeds : RecieveTick(tick, srand0)
    \/ \E currentTicks \in Ticks :
          ReceiveMap(Len(ResyncChunk), 0, ResyncChunk, currentTicks)

SpecSync == InitFresh /\ [][NextSync]_vars

\* A whole session: the calls that open and close it, answer the server and
\* receive the map, commands and ticks, each with a few inputs.
Next ==
    \/ Begin
    \/ Close
    \/ \E bytes \in Challenges : HandleChallenge(bytes)
    \/ \E password \in Passwords : SendPassword(password)
    \/ \E c \in SessionChunks : ReceiveMap(c.total, 0, c.data, 0)
    \/ received = <<>> /\ RecieveGameCommand(1)
    \/ RecieveTick(1, 1)

Spec == Init /\ [][Next]_vars

\* The handshake alone: sessions opened and closed, challenges and password
\* requests answered, the server's description received.
NextAuth ==
    \/ Begin
    \/ Close
    \/ \E bytes \in Challenges : HandleChallenge(bytes)
    \/ \E password \in Passwords : SendPassword(password)
    \/ \E json \in ServerInfoJsons : RecieveServerInfo(json)

SpecAuth == Init /\ [][NextAuth]_vars

\* Chunks of transfers of two and of four bytes, a chunk that ends past
\* the total it advertises, and one whose offset is near the top of size_t.
CopyChunks ==
    { [total |-> 2, offset |-> 0, data |-> <<1>>],
      [total |-> 2, offset |-> 1, data |-> <<1>>],
      [total |-> 2, offset |-> 0, data |-> <<1, 1>>],
      [total |-> 2, offset |-> 1, data |-> <<0>>],
      [total |-> 4, offset |-> 0, data |-> <<1>>],
      [total |-> 4, offset |-> 0, data |-> <<0, 1>>],
      [total |-> 4, offset |-> 1, data |-> <<1>>],
      [total |-> 4, offset |-> 2, data |-> <<1, 1>>],
      [total |-> 4, offset |-> 3, data |-> <<1>>],
      [total |-> 2, offset |-> 2, data |-> <<1>>],
      [total |-> 0, offset |-> SizeModulus - 1, data |-> <<1>>] }

\* A client on which the copies of the chunks are recorded.
InitCopy ==
    /\ Constructed
    /\ privFile = "absent"
    /\ inbox = {}
    /\ copied.on

NextCopy ==
    \E c \in CopyChunks : ReceiveMap(c.total, c.offset, c.data, 0)

SpecCopy == InitCopy /\ [][NextCopy]_vars

\* Every call that uses the connection or could queue a packet, with one
\* input each; game info and pings are requested on an idle connection.
NextCalls ==
    \/ Begin
    \/ Close
    \/ last.op # "Update" /\ Update
    \/ \E bytes \in Challenges : HandleChallenge(bytes)
    \/ \E password \in Passwords : SendPassword(password)
    \/ GetAuthStatus
    \/ conn.queued = <<>> /\ RequestGameInfo
    \/ conn.queued = <<>> /\ SendPing
    \/ mapBuffer = <<>> /\ ReceiveMap(2, 0, <<1>>, 0)
    \/ received = <<>> /\ RecieveGameCommand(1)
    \/ ~anchored /\ RecieveTick(1, 1)

SpecCalls == InitFresh /\ [][NextCalls]_vars

\* The queue while the server's ticks advance and the game loop calls
\* Update(): commands arrive, each tick message carries the next tick.
NextDrain ==
    \/ \E tick \in 1..MaxTick : RecieveGameCommand(tick)
    \/ \E srand0 \in Seeds :
          serverTick < MaxTick /\ RecieveTick(serverTick + 1, srand0)
    \/ Update

\* The game loop keeps running and the server keeps sending: a call that
\* can be made is made.
SpecDrain == InitFresh /\ [][NextDrain]_vars /\ WF_vars(NextDrain)

\* A fixed set of messages: three commands, two ticks, and the two chunks of
\* one map transfer.
InterleavedMessages ==
    { CmdMsg(5), CmdMsg(2), CmdMsg(1),
      TickMsg(1, 1), TickMsg(2, 2),
      MapMsg(2, 0, <<1>>), MapMsg(2, 1, <<1>>) }

InitInterleave ==
    /\ Constructed
    /\ privFile = "absent"
    /\ inbox = InterleavedMessages
    /\ ~copied.on

\* The messages in flight are handled one at a time, in any order.
NextInterleave ==
    \/ \E m \in inbox : m.type = "cmd" /\ RecieveGameCommand(m.tick)
    \/ \E m \in inbox : m.type = "tick" /\ RecieveTick(m.tick, m.srand0)
    \/ \E m \in inbox : m.type = "map" /\ ReceiveMap(m.total, m.offset, m.data, 0)

SpecInterleave == InitInterleave /\ [][NextInterleave]_vars

\* The key store alone: keys generated, loaded from files of every size and
\* kind, and unloaded.
NextKey ==
    \/ KeyGenerate
    \/ KeyUnload
    \/ \E size \in KeyFileSizes, kind \in KeyFileKinds : KeyLoadPrivate(size, kind)
    \/ \E size \in KeyFileSizes, kind \in KeyFileKinds : KeyLoadPublic(size, kind)

SpecKey == InitFresh /\ [][NextKey]_vars

\* The key store in use: a key generated, saved, printed, loaded from the
\* public file and unloaded; messages signed, and verified as they were
\* signed or with one bit flipped.
NextSign ==
    \/ KeyGenerate
    \/ KeyUnload
    \/ \E kind \in KeyFileKinds : KeyLoadPublic(1, kind)
    \/ \E md \in SignedMessages : KeySign(md)
    \/ \E md \in {signed.md} \cup Flips(signed.md),
          sig \in {signed.signature} \cup Flips(signed.signature) :
          /\ signed.signature # <<>>
          /\ md = signed.md \/ sig = signed.signature
          /\ KeyVerify(md, sig)
    \/ \E private \in BOOLEAN, encoded \in BOOLEAN : KeySave(private, encoded)
    \/ KeyPublicKeyString

SpecSign == InitFresh /\ [][NextSign]_vars

\* A session that receives snapshots, commands and ticks, without the
\* authentication exchange.
NextLoad ==
    \/ Begin
    \/ Close
    \/ \E c \in SessionChunks : ReceiveMap(c.total, 0, c.data, 0)
    \/ Len(received) < 2 /\ RecieveGameCommand(1)
    \/ \E tick \in {0, 1} : RecieveTick(tick, 1)

SpecLoad == Init /\ [][NextLoad]_vars

(* ------------------------- map transfer claims ------------------------ *)

\* What feeding the first half and then the second half of a transfer of
\* `total` bytes into an empty buffer hands to map processing.
HandedInOffsetOrder(total, first, second) ==
    CopyChunk(CopyChunk(Grow(<<>>, total), 0, first), Len(first), second)

\* C3: when the two halves of a transfer, (total/2, bytes total/2..total) and
\* (0, bytes 0..total/2), were fed in reverse order, the transfer completed
\* (one of the two calls handed a buffer to map processing) with the very
\* bytes that feeding them in offset order hands over.
C3_EitherOrderSameBytes ==
    rev.done =>
        LET want == HandedInOffsetOrder(rev.total, rev.first, rev.second)
        IN  \/ processed.outcome # "none" /\ processed.buf = want
            \/ rev.early.outcome # "none" /\ rev.early.buf = want

C5_QueueSortedAndComplete ==
    /\ \A i \in 1..(Len(gameCommandQueue) - 1) :
            gameCommandQueue[i].tick <= gameCommandQueue[i + 1].tick
    /\ Len(gameCommandQueue) = Len(received)
    /\ \A i \in 1..Len(received) :
            Cardinality({j \in 1..Len(gameCommandQueue) :
                            gameCommandQueue[j] = received[i]}) = 1

\* Commands arrived out of tick order and with a repeated tick.
C5_OutOfOrderArrivals ==
    /\ Len(received) >= 3
    /\ \E i, j \in 1..Len(received) : i < j /\ received[i].tick > received[j].tick
    /\ \E i, j \in 1..Len(received) : i < j /\ received[i].tick = received[j].tick

TicksOf(q) == [i \in 1..Len(q) |-> q[i].tick]
IdsOf(q) == [i \in 1..Len(q) |-> q[i].id]

\* C6: what a drain up to any tick removes is ordered by tick, and commands
\* of equal tick come out in arrival order; ticks [5, 2, 5, 1] drained up to
\* tick 5 come out as [1, 2, 5, 5], the first-arrived 5 before the second.
C6_EqualTicksInArrivalOrder ==
    /\ \A tick \in CmdTicks :
         LET d == DrainUpTo(gameCommandQueue, tick)
         IN  \A i, j \in 1..Len(d) :
                i < j => \/ d[i].tick < d[j].tick
                         \/ d[i].tick = d[j].tick /\ d[i].id < d[j].id
    /\ TicksOf(received) = <<5, 2, 5, 1>> =>
         /\ TicksOf(DrainUpTo(gameCommandQueue, 5)) = <<1, 2, 5, 5>>
         /\ IdsOf(DrainUpTo(gameCommandQueue, 5)) = <<4, 2, 1, 3>>

\* The commands arrived with ticks 5, 2, 5, 1.
C6_Arrived5251 == TicksOf(received) = <<5, 2, 5, 1>>

(* --------------------------- tick anchor claims ----------------------- *)

\* C7: the first RecieveTick after a (re)synchronization records its tick
\* and seed as the anchor; every later one leaves the anchor unchanged.
C7_AnchorCapturedOnce ==
    [][\A tick \in Ticks, srand0 \in Seeds :
          RecieveTick(tick, srand0) =>
              IF anchored
              THEN /\ serverSrand0' = serverSrand0
                   /\ serverSrand0Tick' = serverSrand0Tick
              ELSE /\ serverSrand0' = srand0
                   /\ serverSrand0Tick' = tick]_vars

\* The last call completed a transfer whose snapshot loaded.
JustLoaded == last.op = "ReceiveMap" /\ processed.outcome = "loaded"

\* C8: right after a map transfer completed and the snapshot loaded, the
\* command queue is empty and the tick anchor is unset, and a RecieveTick
\* that follows records its tick and seed as the anchor.
C8_LoadResetsQueueAndAnchor ==
    [][/\ JustLoaded' => gameCommandQueue' = <<>> /\ serverSrand0Tick' = 0
       /\ \A tick \in Ticks, srand0 \in Seeds :
            (JustLoaded /\ RecieveTick(tick, srand0)) =>
                serverSrand0' = srand0 /\ serverSrand0Tick' = tick]_vars

\* A snapshot has just loaded over an anchor captured before it: the seed of
\* that anchor is still stored, its tick is unset.
C8_LoadedOverOldAnchor ==
    /\ JustLoaded
    /\ serverSrand0 = MaxSeed
    /\ serverSrand0Tick = 0
    /\ gameCommandQueue = <<>>

(* ------------------------ connection lifecycle claims ----------------- *)

\* C1: a Begin called while the mode flag is "client" returns failure and
\* leaves the mode flag, the status, the connection object, the challenge,
\* the map buffer and the command queue as they were.
C1_BeginWhileActiveFails ==
    [][(mode = "CLIENT" /\ Begin) =>
          /\ last'.ret = "false"
          /\ UNCHANGED <<mode, status, conn, challenge, mapBuffer,
                         gameCommandQueue>>]_vars

\* C2: a Begin that returns false (its key setup failed) does not leave the
\* mode flag set to "client", and the flag becomes "client" only in a Begin
\* that returns true.
C2_FailedBeginLeavesModeUnset ==
    [][/\ (last'.op = "Begin" /\ last'.ret = "false") => mode' # "CLIENT"
       /\ (mode # "CLIENT" /\ mode' = "CLIENT") =>
              (last'.op = "Begin" /\ last'.ret = "true")]_vars

\* C9: when a Begin after the first one on this client (a reconnect) has
\* started a session, the command queue is empty, the tick anchor is unset
\* and no challenge is stored.
C9_ReconnectResetsSession ==
    (last.op = "Begin" /\ last.ret = "true" /\ begun >= 2) =>
        /\ gameCommandQueue = <<>>
        /\ serverSrand0Tick = 0
        /\ challenge = <<>>

\* C10: when Close has returned, the stored challenge, the map buffer and
\* the command queue are empty.
C10_CloseClearsSession ==
    last.op = "Close" =>
        /\ challenge = <<>>
        /\ mapBuffer = <<>>
        /\ gameCommandQueue = <<>>

(* ----------------------------- session claims ------------------------- *)

\* C11: whenever Begin, HandleChallenge or SendPassword has returned, on its
\* success path or on a failure path, no key is loaded in the key object.
C11_NoKeyLoadedAfterCall ==
    (/\ last.op \in {"Begin", "HandleChallenge", "SendPassword"}
     /\ last.ret \in {"true", "false", "void"}) => m_key = "null"

\* C12: once Begin has succeeded, the challenge has been answered, a map
\* transfer has completed and loaded and a tick message has been received,
\* the connection status has left Connecting.
C12_SynchronizedAfterFirstTick ==
    phase = "ticked" => status # "CONNECTING"

\* C13: after Close(), and after a key load failure, a signing failure or a
\* decompression failure, the connection status is not Connecting any more.
C13_ClosedAfterCloseOrError ==
    (\/ last.op = "Close"
     \/ last.op = "HandleChallenge" /\ last.path \in {"load_failed", "sign_failed"}
     \/ last.op = "ReceiveMap" /\ last.ret = "void"
            /\ processed.outcome = "inflate_failed")
        => status # "CONNECTING"

\* C14: a HandleChallenge in which loading the private key or signing the
\* challenge fails sets the disconnect reason to verification failure and
\* requests a socket disconnect, queues no packet and leaves the
\* authentication status as it was.
C14_FailedChallengeDisconnects ==
    [][(/\ last'.op = "HandleChallenge"
        /\ last'.path \in {"load_failed", "sign_failed"}) =>
            /\ conn'.reason = "VERIFICATION_FAILURE"
            /\ conn'.disconnected
            /\ conn'.queued = conn.queued
            /\ conn'.AuthStatus = conn.AuthStatus
            /\ conn'.id = conn.id]_vars

\* Signing failed on a connection that had answered a challenge before: the
\* packet of that answer is the only one queued.
C14_SignFailedAfterAnswer ==
    /\ last.op = "HandleChallenge" /\ last.path = "sign_failed"
    /\ conn.reason = "VERIFICATION_FAILURE" /\ conn.disconnected
    /\ conn.AuthStatus = "REQUESTED" /\ Len(conn.queued) = 1

\* C15: every packet HandleChallenge or SendPassword queues is an AUTH packet
\* with the stream id, the player name, the password (empty from
\* HandleChallenge), the PEM text of the public key, the signature length
\* and the signature over the stored challenge.
C15_AuthPacketContent ==
    [][(conn'.id = conn.id /\ Len(conn'.queued) = Len(conn.queued) + 1) =>
          LET pkt == conn'.queued[Len(conn'.queued)]
          IN  /\ pkt.command = "AUTH"
              /\ pkt.stream = "STREAM_ID"
              /\ pkt.name = "player_name"
              /\ last'.op = "HandleChallenge" => pkt.password = ""
              /\ last'.op = "SendPassword" => pkt.password \in Passwords
              /\ pkt.pubkey = "PEM"
              /\ pkt.sigsize = Len(pkt.signature)
              /\ [ok |-> TRUE, signature |-> pkt.signature]
                    \in SignOutcomes("private", challenge')]_vars

\* C16: a SendPassword in which the private key does not load ends as
\* HandleChallenge does in that case: verification failure as the disconnect
\* reason, a socket disconnect requested, no packet queued.
C16_SendPasswordFailsAsChallenge ==
    [][(/\ last'.op = "SendPassword"
        /\ last'.path = "load_failed"
        /\ conn.id # 0) =>
            conn' = VerificationFailure(conn)]_vars

\* C17: a completed transfer with the compressed-format marker whose
\* decompression fails does not reach the loader, clears the mode flag,
\* leaves the command queue, the server tick and the anchor as they were,
\* and leaves nothing in the buffer to process again.
C17_InflateFailureCloses ==
    [][(/\ last'.op = "ReceiveMap" /\ last'.ret = "void"
        /\ processed'.outcome = "inflate_failed") =>
            /\ processed'.sv6 = <<>> /\ processed'.quit = 0
            /\ mode' = "NONE"
            /\ UNCHANGED <<gameCommandQueue, serverTick, serverSrand0,
                           serverSrand0Tick>>
            /\ mapBuffer' = <<>>]_vars

\* Decompression failed in a session that had commands queued and an anchor.
C17_InflateFailedInSession ==
    /\ last.op = "ReceiveMap" /\ processed.outcome = "inflate_failed"
    /\ Len(processed.buf) >= HeaderSize
    /\ conn.id # 0 /\ mode = "NONE"
    /\ gameCommandQueue # <<>> /\ serverSrand0Tick # 0

\* C18: when a ReceiveMap call whose chunk has offset + size = total size
\* has returned, the map buffer is empty, however processing ended.
C18_BufferEmptyAfterCompletion ==
    (last.op = "ReceiveMap" /\ last.path = "completed" /\ last.ret = "void")
        => mapBuffer = <<>>

\* A completed transfer of several bytes failed to decompress, and the call
\* returned.
C18_CompletedAndFailed ==
    /\ last.op = "ReceiveMap" /\ last.path = "completed" /\ last.ret = "void"
    /\ processed.outcome = "inflate_failed" /\ Len(processed.buf) >= 3
    /\ mapBuffer = <<>>

\* The last call handed a snapshot to the loader, which rejected it.
JustRejected == last.op = "ReceiveMap" /\ processed.outcome = "rejected"

\* C19: a snapshot the loader rejects makes the client issue the
\* load-or-quit command once, and leaves the command queue, the server tick
\* and the tick anchor as they were.
C19_RejectedLoadQuitsOnce ==
    [][JustRejected' =>
          /\ processed'.quit = 1
          /\ UNCHANGED <<gameCommandQueue, serverTick, serverSrand0,
                         serverSrand0Tick>>]_vars

\* A snapshot was rejected while commands were queued and an anchor was set.
C19_RejectedWithQueueAndAnchor ==
    /\ JustRejected
    /\ processed.quit = 1
    /\ Len(gameCommandQueue) >= 2
    /\ serverSrand0Tick # 0 /\ serverTick # 0

\* C20: a Begin that follows a Close of an earlier session passes both
\* guards (the process is not ended by a failed assertion).
C20_BeginAfterCloseKeepsGuards ==
    [][(last.op = "Close" /\ begun >= 1 /\ last'.op = "Begin") =>
          last'.ret # "abort"]_vars

\* C21: a Begin that returns false because key setup failed has not started
\* the asynchronous connect of the connection it created.
C21_NoConnectOnKeyFailure ==
    (last.op = "Begin" /\ last.ret = "false") =>
        ~(conn.id = begun /\ conn.connecting)

\* C24: a Begin that found no private-key file and returns true has
\* generated a key and written the private-key file and the public-key file
\* with it.
C24_NewKeySetupSucceedsOnlyWhenSaved ==
    (last.op = "Begin" /\ last.path = "generate" /\ last.ret = "true") =>
        /\ m_key = "generated"
        /\ privFile = "valid"
        /\ pubFile = "written"

\* C25: a Begin that finds a private-key file does not take the generating
\* branch, leaves the private-key file and the public-key file as they are
\* and leaves no key in memory that was not there before.
C25_ExistingKeyOnlyRead ==
    [][(last'.op = "Begin" /\ begun' = begun + 1 /\ privFile # "absent") =>
          /\ last'.path # "generate"
          /\ privFile' = privFile
          /\ pubFile' = pubFile
          /\ m_key' \in {m_key, "null"}]_vars

\* The second Begin of a client loaded the key file its first Begin wrote.
C25_SecondBeginLoadsFirstKey ==
    /\ last.op = "Begin" /\ last.path = "load" /\ last.ret = "true"
    /\ begun = 2
    /\ privFile = "valid" /\ pubFile = "written"

\* C27: after a server-info payload that does not parse, a session that was
\* open is over: the mode flag is cleared or a disconnect requested.
C27_MalformedInfoEndsSession ==
    (last.op = "RecieveServerInfo" /\ last.path = "malformed" /\ phase # "idle")
        => (mode = "NONE" \/ conn.disconnected)

\* C28: Close() can be called in every state of a running client, and when
\* it has returned the mode flag is "none".
C28_CloseClearsModeFlag ==
    /\ ~aborted => ENABLED Close
    /\ last.op = "Close" => mode = "NONE"

\* Close() returned in the middle of a map transfer of a connection.
C28_ClosedMidTransfer ==
    /\ last.op = "Close" /\ mode = "NONE"
    /\ conn.id # 0 /\ status = "CONNECTING"
    /\ mapBuffer # <<>>

\* C29: a Close() that directly follows a Close() ends no process and
\* changes nothing of the client.
C29_CloseTwiceChangesNothing ==
    [][(last.op = "Close" /\ last'.op = "Close" /\ last'.rep = 2) =>
          /\ ~aborted'
          /\ UNCHANGED <<sessionVars, mapVars, syncVars, aborted, phase, inbox, signed>>]_vars

\* Close() was called twice in a row on a client with a connection, commands
\* queued and a transfer under way.
C29_ClosedTwice ==
    /\ last.op = "Close" /\ last.rep = 2
    /\ conn.id # 0 /\ mapBuffer # <<>> /\ gameCommandQueue # <<>>

(* ------------------------ drain and interleaving ---------------------- *)

\* A command with target tick `t` is pending.
PendingAt(t) ==
    \E i \in 1..Len(gameCommandQueue) : gameCommandQueue[i].tick = t

\* C22: a command with target tick t that is pending when the tick has been
\* reached is eventually removed from the queue, while ticks advance and no
\* map is loaded.
C22_CommandsEventuallyDrained ==
    \A t \in 1..MaxTick : (PendingAt(t) /\ serverTick >= t) ~> ~PendingAt(t)

\* The commands `cmds` by ascending tick, equal ticks in the order they have.
RECURSIVE InTickOrder(_, _)
InTickOrder(cmds, ticks) ==
    IF ticks = {} THEN <<>>
    ELSE LET t == CHOOSE x \in ticks : \A y \in ticks : x <= y
         IN  SelectSeq(cmds, LAMBDA c : c.tick = t)
                \o InTickOrder(cmds, ticks \ {t})

\* C23 as stated: when every message of the fixed set has been handled, in
\* whatever order, the same commands are pending in the same tick order.
C23_AnyInterleavingSamePending ==
    inbox = {} => TicksOf(gameCommandQueue) = <<1, 2, 5>>

\* C23, amended: at every point of every interleaving the pending commands
\* are the commands that arrived after the last snapshot was loaded, by
\* ascending target tick.
C23_PendingAreCommandsSinceLoad ==
    gameCommandQueue = InTickOrder(received, CmdTicks)

\* Every message has been handled; one command arrived before the snapshot
\* loaded, the other two after it and out of tick order.
C23_OneCommandBeforeLoad ==
    /\ inbox = {}
    /\ processed.outcome = "loaded"
    /\ TicksOf(received) = <<2, 1>>
    /\ TicksOf(gameCommandQueue) = <<1, 2>>

(* ----------------------------- key store claims ----------------------- *)

\* C26: LoadPrivate and LoadPublic on a file that declares size -1 or more
\* than 4 MiB return false before anything is read or parsed and leave the
\* loaded key as it was; a file of exactly 4 MiB goes on to be parsed.
C26_OversizeKeyFileRejected ==
    last.op \in {"LoadPrivate", "LoadPublic"} =>
        IF last.arg = -1 \/ last.arg > 4 * 1024 * 1024
        THEN /\ last.ret = "false"
             /\ last.path = "size_rejected"
             /\ m_key = last.pre
        ELSE last.path = "parsed"

\* A private-key file one byte over the ceiling was refused while a
\* generated key was loaded.
C26_OneByteOverRefused ==
    /\ last.op = "LoadPrivate" /\ last.arg = 4 * 1024 * 1024 + 1
    /\ last.ret = "false"
    /\ last.pre = "generated" /\ m_key = "generated"

\* C30: after Unload() no key is loaded; it frees a key exactly when one was
\* loaded, and an Unload() that directly follows an Unload() frees nothing
\* and changes nothing.
C30_UnloadIdempotent ==
    [][last'.op = "Unload" =>
          /\ m_key' = "null"
          /\ (last'.path = "freed") <=> (m_key # "null")
          /\ last.op = "Unload" => (last'.path = "noop" /\ m_key' = m_key)]_vars

\* Unload() was called twice in a row.
C30_UnloadedTwice ==
    /\ last.op = "Unload" /\ last.rep = 2
    /\ last.path = "noop" /\ last.pre = "null" /\ m_key = "null"

(* ------------------------- sign, verify, save ------------------------- *)

C32_NoKeyMeansFailure ==
    [][(/\ last'.op \in {"Sign", "SavePrivate", "SavePublic", "PublicKeyString"}
        /\ m_key = "null")
          => /\ last'.ret \in {"false", "empty"}
             /\ ~aborted'
             /\ UNCHANGED <<m_key, privFile, pubFile>>
             /\ last'.op = "Sign" => signed'.signature = <<>>]_vars

\* C39: LoadPrivate returns true only with a decoded key that passed the
\* integrity check loaded; when the file does not decode or the check fails
\* it returns false and the key held before is unchanged.
C39_LoadPrivateChecksIntegrity ==
    (last.op = "LoadPrivate" /\ last.path = "parsed") =>
        IF last.ret = "true" THEN m_key = "private"
        ELSE last.ret = "false" /\ m_key = last.pre

(* ------------------------ retries, the connection --------------------- *)

\* The AUTH packets queued on the connection `c`.
AuthPackets(c) == Len(SelectSeq(c.queued, LAMBDA p : p.command = "AUTH"))

\* The AUTH packets a step has queued, on the old connection or a new one.
AuthPacketsAdded ==
    IF conn'.id = conn.id THEN AuthPackets(conn') - AuthPackets(conn)
    ELSE AuthPackets(conn')

\* C33: a call queues at most one AUTH packet, and only HandleChallenge and
\* SendPassword queue any: nothing sends one again on its own.
C33_NothingRetried ==
    [][/\ AuthPacketsAdded <= 1
       /\ AuthPacketsAdded = 1 => last'.op \in {"HandleChallenge", "SendPassword"}]_vars

\* A password was sent after the answer to the challenge, and the game loop
\* has run on since without another packet.
C33_TwoPacketsTwoCalls ==
    /\ last.op = "Update"
    /\ AuthPackets(conn) = 2
    /\ conn.queued[1].password = "" /\ conn.queued[2].password = "secret"

\* C37: no call reads or writes through the server connection while there
\* is none.
C37_ConnectionExistsWhenUsed == last.path # "null_connection"

(* --------------------------- chunks and buffer ------------------------ *)

\* C34: when ReceiveMap hands the buffer to map processing, every byte of
\* [0, totalSize) was written by a chunk received since the previous
\* completion.
C34_HandedBufferFullyWritten ==
    (last.op = "ReceiveMap" /\ processed.outcome # "none") =>
        \A i \in 0..(copied.total - 1) : i \in copied.since

\* C35: the bytes ReceiveMap copies lie inside the map buffer as it is at
\* the time of the copy.
C35_CopyInsideBuffer ==
    last.op = "ReceiveMap" => copied.offset + copied.size <= copied.room

\* C36: when a chunk that lies inside the buffer completes a transfer whose
\* previous chunk advertised a larger total, the data handed to map
\* processing has the size the completing chunk advertised.
C36_HandedSizeIsAdvertisedTotal ==
    [][(/\ last.op = "ReceiveMap" /\ last.path = "partial"
        /\ last'.op = "ReceiveMap" /\ last'.path = "completed"
        /\ copied.total > copied'.total
        /\ copied'.offset + copied'.size <= copied'.room
        /\ processed'.outcome # "none")
          => Len(processed'.buf) = copied'.total]_vars

(* ------------------------------ server info --------------------------- *)

====
